---------------------------- MODULE Spec2Model ----------------------------
(***************************************************************************)
(* A model of excel_to_mysql: the identifier normalizers, the column type  *)
(* inference, the row preprocessing pipeline, and the batch orchestrator   *)
(* that rebuilds one MySQL table per sheet or CSV file.                    *)
(*                                                                         *)
(* Text is a sequence of one-character strings.  A number is an integer    *)
(* count of hundredths (1000.00 is 100000).  A cell is a record            *)
(* [k, s, n]: k is "null" (NaN/NaT/<NA>), "str" (text s), "num" (number n),*)
(* "huge" (a float of magnitude 2^63 or more) or "date" (day number n).    *)
(***************************************************************************)
EXTENDS Integers, Sequences, FiniteSets, TLC

VARIABLES
    raw, norm,                  \* normalizer: input text, results
    df, pre, ddl,               \* preprocessing: input frame, outcome, column definitions
    listing, files, run, pc, fi, si, base_table_name, success_count,
    total_success, tally,       \* batch_sync_all_files / sync_single_file_all_sheets
    cur, conn, tables, pending, exc, result,    \* sync_dataframe_to_table and the store
    faults,                     \* store faults met so far
    oplog, faulted, attempted, discovered, rejected, stored, counted,
    unitTable, lastGood, lastRun                \* history of the run, for the properties

normVars == <<raw, norm>>
preVars == <<df, pre, ddl>>
batchVars == <<listing, files, run, pc, fi, si, base_table_name, success_count,
               total_success, tally, cur, conn, tables, pending, exc, result, faults,
               oplog, faulted, attempted, discovered, rejected, stored, counted,
               unitTable, lastGood, lastRun>>
vars == <<normVars, preVars, batchVars>>

\* ---------------------------------------------------------------- bounds
MaxLen == 3
MaxRows == 2
MaxFiles == 2
MaxRuns == 2
MaxFaults == 1

\* ------------------------------------------------------------------ text
Alpha == <<"a","b","c","d","e","f","g","h","i","j","k","l","m",
           "n","o","p","q","r","s","t","u","v","w","x","y","z">>
AlphaUp == <<"A","B","C","D","E","F","G","H","I","J","K","L","M",
             "N","O","P","Q","R","S","T","U","V","W","X","Y","Z">>
Digits == <<"0","1","2","3","4","5","6","7","8","9">>

Range(f) == {f[i] : i \in DOMAIN f}
IsLowerLetter(c) == c \in Range(Alpha)
IsUpperLetter(c) == c \in Range(AlphaUp)
IsDigit(c) == c \in Range(Digits)

\* str.lower(), one character
ToLower(c) ==
    IF IsUpperLetter(c) THEN Alpha[CHOOSE i \in DOMAIN AlphaUp : AlphaUp[i] = c] ELSE c

Lower(s) == [i \in DOMAIN s |-> ToLower(s[i])]

\* re.sub(r'[^a-zA-Z0-9]', '_', s)
SubNonAlnum(s) ==
    [i \in DOMAIN s |->
        IF IsLowerLetter(s[i]) \/ IsUpperLetter(s[i]) \/ IsDigit(s[i]) THEN s[i] ELSE "_"]

\* re.sub(r'_+', '_', s)
RECURSIVE CollapseUnderscores(_)
CollapseUnderscores(s) ==
    IF Len(s) <= 1 THEN s
    ELSE IF s[1] = "_" /\ s[2] = "_" THEN CollapseUnderscores(Tail(s))
    ELSE <<s[1]>> \o CollapseUnderscores(Tail(s))

\* s.lstrip(ch), s.rstrip(ch), s.strip(ch) for a set of characters
RECURSIVE LStrip(_, _)
LStrip(s, chars) ==
    IF s # <<>> /\ s[1] \in chars THEN LStrip(Tail(s), chars) ELSE s

RECURSIVE RStrip(_, _)
RStrip(s, chars) ==
    IF s # <<>> /\ s[Len(s)] \in chars THEN RStrip(SubSeq(s, 1, Len(s) - 1), chars) ELSE s

Strip(s, chars) == RStrip(LStrip(s, chars), chars)

StartsWith(s, p) == Len(s) >= Len(p) /\ SubSeq(s, 1, Len(p)) = p
EndsWith(s, p) == Len(s) >= Len(p) /\ SubSeq(s, Len(s) - Len(p) + 1, Len(s)) = p

\* os.path.splitext(name)[0], for a name without directory separators
SplitextRoot(p) ==
    LET dots == {i \in DOMAIN p : p[i] = "."}
        lastDot == IF dots = {} THEN 0 ELSE CHOOSE i \in dots : \A j \in dots : j <= i
    IN  IF lastDot > 0 /\ \E i \in 1..(lastDot - 1) : p[i] # "."
        THEN SubSeq(p, 1, lastDot - 1)
        ELSE p

\* ------------------------------------------------- identifier normalizers
SheetPrefix == <<"s","h","e","e","t">>
TablePrefix == <<"t","a","b","l","e">>

\* the test `not name or name[0].isdigit()`
NeedsPrefix_NoDigitCheck(name) == name = <<>>
NeedsPrefix(name) == name = <<>> \/ IsDigit(name[1])

WithPrefix(name, prefix) ==
    IF NeedsPrefix(name)
    THEN IF name # <<>> THEN prefix \o <<"_">> \o name ELSE prefix
    ELSE name

normalize_sheet_name(sheet_name) ==
    WithPrefix(Strip(CollapseUnderscores(SubNonAlnum(Lower(sheet_name))), {"_"}),
               SheetPrefix)

filename_to_base_table_name(filename) ==
    WithPrefix(Strip(CollapseUnderscores(SubNonAlnum(Lower(SplitextRoot(filename)))),
                     {"_"}),
               TablePrefix)

\* ------------------------------------------------------------- config.py
PRIMARY_KEY_COLUMN == <<"K","e","y">>
MONEY_COLUMNS == << <<"R","e","v","e","n","u","e">>, <<"P","r","i","c","e">>,
                    <<"A","m","o","u","n","t">>, <<"C","o","s","t">>,
                    <<"S","a","l","a","r","y">>, <<"T","o","t","a","l">>,
                    <<"V","a","l","u","e">> >>
IGNORE_FILES == { <<"t","e","m","p","l","a","t","e",".","x","l","s","x">>,
                  <<"b","a","c","k","u","p",".","x","l","s","x">> }
EXCEL_FILE_EXTENSION == { <<".","x","l","s","x">>, <<".","x","l","s">> }
CSV_EXTENSION == { <<".","c","s","v">> }
ALL_SUPPORTED_EXTENSIONS == EXCEL_FILE_EXTENSION \cup CSV_EXTENSION

\* ----------------------------------------------------------------- cells
Null == [k |-> "null", s |-> <<>>, n |-> 0]
Str(s) == [k |-> "str", s |-> s, n |-> 0]
Num(n) == [k |-> "num", s |-> <<>>, n |-> n]
Huge == [k |-> "huge", s |-> <<>>, n |-> 0]
Date(n) == [k |-> "date", s |-> <<>>, n |-> n]

\* pd.isna(cell)
IsNa(c) == c.k = "null"

RECURSIVE DigitsVal(_)
DigitsVal(s) ==
    IF s = <<>> THEN 0
    ELSE 10 * DigitsVal(SubSeq(s, 1, Len(s) - 1))
         + (CHOOSE i \in DOMAIN Digits : Digits[i] = s[Len(s)]) - 1

AllDigits(s) == \A i \in DOMAIN s : IsDigit(s[i])

RECURSIVE NatToStr(_)
NatToStr(n) ==
    IF n < 10 THEN <<Digits[n + 1]>> ELSE NatToStr(n \div 10) \o <<Digits[(n % 10) + 1]>>

\* repr of a non-negative float held in hundredths: 500 is "5.0", 150 is "1.5", 125 is "1.25"
FloatToStr(n) ==
    NatToStr(n \div 100) \o <<".">> \o
    (IF n % 10 = 0 THEN <<Digits[((n % 100) \div 10) + 1]>>
     ELSE <<Digits[((n % 100) \div 10) + 1], Digits[(n % 10) + 1]>>)

\* Series.astype(str), one cell: NaN becomes the text "nan"
AsStr(c) ==
    CASE c.k = "str" -> c.s
      [] c.k = "num" -> FloatToStr(c.n)
      [] c.k = "huge" -> <<"1","e","+","3","0">>
      [] c.k = "null" -> <<"n","a","n">>
      [] OTHER -> <<>>

\* pd.to_numeric(text, errors='coerce'): digits with at most one point, surrounding
\* blanks skipped; anything else is NaN.  Two decimals are kept.
ParseNum(text) ==
    LET s == Strip(text, {" "})
        dots == {i \in DOMAIN s : s[i] = "."}
        dot == IF dots = {} THEN Len(s) + 1 ELSE CHOOSE i \in dots : TRUE
        ip == SubSeq(s, 1, dot - 1)
        fp == SubSeq(s, dot + 1, Len(s))
        f2 == SubSeq(fp \o <<"0","0">>, 1, 2)
    IN  IF Cardinality(dots) <= 1 /\ AllDigits(ip) /\ AllDigits(fp) /\ Len(ip) + Len(fp) > 0
        THEN Num(100 * DigitsVal(ip) + DigitsVal(f2))
        ELSE Null

\* whether pd.to_numeric reads the text as an integer (no point)
ParsesAsInt(text) == ParseNum(text).k = "num" /\ \A i \in DOMAIN text : text[i] # "."

\* pd.to_numeric, one cell
ToNumeric(c) == IF c.k = "str" THEN ParseNum(c.s) ELSE IF c.k \in {"num", "huge"} THEN c ELSE Null

\* ----------------------------------------------------- DATE_FORMAT %Y/%m/%d
IsLeap(y) == (y % 4 = 0 /\ y % 100 # 0) \/ y % 400 = 0
DaysInMonth(y, m) ==
    IF m = 2 THEN (IF IsLeap(y) THEN 29 ELSE 28)
    ELSE IF m \in {4, 6, 9, 11} THEN 30 ELSE 31

\* pd.to_datetime(text, format=DATE_FORMAT, errors="coerce")
ParseDate(s) ==
    LET sl == {i \in DOMAIN s : s[i] = "/"}
    IN  IF Cardinality(sl) # 2 THEN Null
        ELSE LET a == CHOOSE i \in sl : \A j \in sl : i <= j
                 b == CHOOSE i \in sl : \A j \in sl : j <= i
                 ys == SubSeq(s, 1, a - 1)
                 ms == SubSeq(s, a + 1, b - 1)
                 ds == SubSeq(s, b + 1, Len(s))
             IN  IF /\ Len(ys) = 4 /\ Len(ms) \in {1, 2} /\ Len(ds) \in {1, 2}
                    /\ AllDigits(ys) /\ AllDigits(ms) /\ AllDigits(ds)
                    /\ DigitsVal(ms) \in 1..12
                    /\ DigitsVal(ds) \in 1..DaysInMonth(DigitsVal(ys), DigitsVal(ms))
                 THEN Date(10000 * DigitsVal(ys) + 100 * DigitsVal(ms) + DigitsVal(ds))
                 ELSE Null

ToDatetime(c) == IF c.k = "str" THEN ParseDate(c.s) ELSE IF c.k = "date" THEN c ELSE Null

\* ----------------------------------------------------------- data frames
\* A frame: column names, one dtype per column, row labels, rows of cells.
Frame(columns, dtypes, index, values) ==
    [columns |-> columns, dtypes |-> dtypes, index |-> index, values |-> values]

NoFrame == Frame(<<>>, <<>>, <<>>, <<>>)

\* DataFrame.empty
IsEmpty(d) == Len(d.columns) = 0 \/ Len(d.index) = 0

RECURSIVE Pick(_, _, _)
Pick(s, keep, i) ==
    IF i > Len(s) THEN <<>>
    ELSE (IF i \in keep THEN <<s[i]>> ELSE <<>>) \o Pick(s, keep, i + 1)

KeepRows(d, keep) ==
    Frame(d.columns, d.dtypes, Pick(d.index, keep, 1), Pick(d.values, keep, 1))

KeepColumns(d, keep) ==
    Frame(Pick(d.columns, keep, 1), Pick(d.dtypes, keep, 1), d.index,
          [r \in DOMAIN d.values |-> Pick(d.values[r], keep, 1)])

Series(d, c) == [r \in DOMAIN d.values |-> d.values[r][c]]

SetColumn(d, c, dtype, cells) ==
    Frame(d.columns, [d.dtypes EXCEPT ![c] = dtype], d.index,
          [r \in DOMAIN d.values |-> [d.values[r] EXCEPT ![c] = cells[r]]])

ColumnsNamed(d, name) == {c \in DOMAIN d.columns : d.columns[c] = name}

\* --------------------------------------------------------- get_mysql_type
SqlType(t, w) == [t |-> t, w |-> w]

Max(S) == CHOOSE x \in S : \A y \in S : y <= x
Min2(a, b) == IF a <= b THEN a ELSE b

VarcharDefault == 255
VarcharCap == 10000

\* int(max_len * 1.2): truncation
ScaleWidth(max_len) == (max_len * 12) \div 10

\* series.astype(str).str.len().max(); NaN (here -1) for a series without rows
MaxStrLen(cells) ==
    IF cells = <<>> THEN -1 ELSE Max({Len(AsStr(cells[r])) : r \in DOMAIN cells})

get_mysql_type(cells, dtype, col_name) ==
    IF col_name = PRIMARY_KEY_COLUMN THEN SqlType("BIGINT", 0)
    ELSE IF dtype = "datetime64" THEN SqlType("DATE", 0)
    ELSE IF dtype = "object" THEN
        LET max_len == MaxStrLen(cells)
        IN  IF max_len = -1 \/ max_len = 0 THEN SqlType("VARCHAR", VarcharDefault)
            ELSE SqlType("VARCHAR", Min2(ScaleWidth(max_len), VarcharCap))
    ELSE IF dtype \in {"int64", "Int64"} THEN SqlType("BIGINT", 0)
    ELSE IF dtype = "float64" THEN SqlType("DECIMAL(9, 4)", 0)
    ELSE SqlType("TEXT", 0)

\* the column definitions of create_table_with_key_as_pk
ColumnDefs(d) ==
    [c \in DOMAIN d.columns |->
        [name |-> d.columns[c],
         type |-> get_mysql_type(Series(d, c), d.dtypes[c], d.columns[c]),
         pk |-> d.columns[c] = PRIMARY_KEY_COLUMN]]

\* --------------------------------------------------- preprocess_dataframe
\* df.columns = [str(col).strip() ...]; df = df.loc[:, ~df.columns.duplicated()]
CleanHeader(d) ==
    LET cols == [c \in DOMAIN d.columns |-> Strip(d.columns[c], {" "})]
        stripped == Frame(cols, d.dtypes, d.index, d.values)
    IN  KeepColumns(stripped, {c \in DOMAIN cols : \A j \in 1..(c - 1) : cols[j] # cols[c]})

HasKeyColumn(d) == ColumnsNamed(d, PRIMARY_KEY_COLUMN) # {}

\* df.dropna(how='all')
DropAllNullRows(d) ==
    KeepRows(d, {r \in DOMAIN d.values : \E c \in DOMAIN d.columns : ~IsNa(d.values[r][c])})

\* [col for col in df.columns if col != PRIMARY_KEY_COLUMN]
NoneKeyColumns(d) == {c \in DOMAIN d.columns : d.columns[c] # PRIMARY_KEY_COLUMN}

\* if none_key_columns: df = df.dropna(subset=none_key_columns, how='all')
DropEmptyContentRows_NoDrop(d) == d
DropEmptyContentRows(d) ==
    IF NoneKeyColumns(d) # {}
    THEN KeepRows(d, {r \in DOMAIN d.values :
                        \E c \in NoneKeyColumns(d) : ~IsNa(d.values[r][c])})
    ELSE d

\* the dtype pd.to_numeric gives a column of parsed cells
NumericDtype(before, after) ==
    IF \A r \in DOMAIN after :
          /\ after[r].k = "num" /\ after[r].n % 100 = 0
          /\ (before[r].k = "str" => ParsesAsInt(before[r].s))
    THEN "int64" ELSE "float64"

\* df[KEY] = pd.to_numeric(df[KEY], errors='coerce'); df = df.dropna(subset=[KEY])
CoerceKey(d) ==
    LET k == CHOOSE c \in ColumnsNamed(d, PRIMARY_KEY_COLUMN) : TRUE
        old == Series(d, k)
        new == [r \in DOMAIN old |-> ToNumeric(old[r])]
        dt == IF d.dtypes[k] = "object" THEN NumericDtype(old, new) ELSE d.dtypes[k]
        coerced == SetColumn(d, k, dt, new)
    IN  KeepRows(coerced, {r \in DOMAIN new : ~IsNa(new[r])})

\* df[col].dropna().head(10)
SampleSize == 10
Sample(cells) ==
    LET nonNull == Pick(cells, {r \in DOMAIN cells : ~IsNa(cells[r])}, 1)
    IN  SubSeq(nonNull, 1, Min2(Len(nonNull), SampleSize))

\* parsed.notna().mean() > 0.5
MostlyDates(sample) ==
    2 * Cardinality({r \in DOMAIN sample : ~IsNa(ToDatetime(sample[r]))}) > Len(sample)

RECURSIVE DetectDatesFrom(_, _)
DetectDatesFrom(d, c) ==
    IF c > Len(d.columns) THEN d
    ELSE IF d.dtypes[c] = "object" /\ Sample(Series(d, c)) # <<>>
            /\ MostlyDates(Sample(Series(d, c)))
         THEN DetectDatesFrom(
                SetColumn(d, c, "datetime64",
                          [r \in DOMAIN d.values |-> ToDatetime(d.values[r][c])]), c + 1)
         ELSE DetectDatesFrom(d, c + 1)

DetectDates(d) == DetectDatesFrom(d, 1)

\* str.replace(r'[,$€£¥₹%\s]', '', regex=True); the non-ASCII symbols are not in the alphabet
MoneyNoise == {",", "$", "%", " "}
CleanMoney(s) == SelectSeq(s, LAMBDA ch : ch \notin MoneyNoise)

MoneyColumn(d, c) ==
    IF d.dtypes[c] = "object"
    THEN LET cleaned == [r \in DOMAIN d.values |-> Str(CleanMoney(AsStr(d.values[r][c])))]
             parsed == [r \in DOMAIN cleaned |-> ToNumeric(cleaned[r])]
         IN  SetColumn(d, c, NumericDtype(cleaned, parsed), parsed)
    ELSE d

RECURSIVE NormalizeMoneyFrom(_, _)
NormalizeMoneyFrom(d, i) ==
    IF i > Len(MONEY_COLUMNS) THEN d
    ELSE LET cs == ColumnsNamed(d, MONEY_COLUMNS[i])
         IN  IF cs # {} THEN NormalizeMoneyFrom(MoneyColumn(d, CHOOSE c \in cs : TRUE), i + 1)
             ELSE NormalizeMoneyFrom(d, i + 1)

NormalizeMoney(d) == NormalizeMoneyFrom(d, 1)

\* non_na = df[col].dropna(); not non_na.empty and (non_na % 1 == 0).all()
IsIntegralFloat_Never(d, c) == FALSE
IsIntegralFloat(d, c) ==
    /\ d.columns[c] # PRIMARY_KEY_COLUMN
    /\ d.dtypes[c] = "float64"
    /\ \E r \in DOMAIN d.values : ~IsNa(d.values[r][c])
    /\ \A r \in DOMAIN d.values :
          \/ IsNa(d.values[r][c])
          \/ d.values[r][c].k = "huge"
          \/ d.values[r][c].k = "num" /\ d.values[r][c].n % 100 = 0

\* astype('Int64') raises TypeError for a float outside the int64 range
NarrowingRaises(d) ==
    \E c \in DOMAIN d.columns :
        IsIntegralFloat(d, c) /\ \E r \in DOMAIN d.values : d.values[r][c].k = "huge"

NarrowIntegralFloats(d) ==
    Frame(d.columns,
          [c \in DOMAIN d.columns |-> IF IsIntegralFloat(d, c) THEN "Int64" ELSE d.dtypes[c]],
          d.index, d.values)

Rejected(reason) == [status |-> "rejected", reason |-> reason, df |-> NoFrame]
Raised(reason) == [status |-> "raised", reason |-> reason, df |-> NoFrame]
Usable(d) == [status |-> "usable", reason |-> "", df |-> d]

preprocess_dataframe(d0) ==
    IF IsEmpty(d0) THEN Rejected("empty sheet")
    ELSE LET d1 == CleanHeader(d0)
         IN  IF ~HasKeyColumn(d1) THEN Rejected("missing primary key column")
             ELSE LET d2 == DropAllNullRows(d1)
                  IN  IF IsEmpty(d2) THEN Rejected("empty after row cleanup")
                      ELSE LET d3 == DropEmptyContentRows(d2)
                           IN  IF IsEmpty(d3) THEN Rejected("all rows empty outside the key")
                               ELSE LET d4 == CoerceKey(d3)
                                    IN  IF IsEmpty(d4) THEN Rejected("key column not numeric")
                                        ELSE LET d6 == NormalizeMoney(DetectDates(d4))
                                             IN  IF NarrowingRaises(d6)
                                                 THEN Raised("TypeError")
                                                 ELSE Usable(NarrowIntegralFloats(d6))

\* ------------------------------------------------------------- the store
\* MySQL as pymysql drives it: tables maps a table name to its committed definition and
\* rows; DROP and CREATE commit implicitly; inserted rows wait in `pending` for a commit.
Put(f, k, v) == [x \in (DOMAIN f) \cup {k} |-> IF x = k THEN v ELSE f[x]]
Remove(f, k) == [x \in (DOMAIN f) \ {k} |-> f[x]]

Absent == [exists |-> FALSE, schema |-> <<>>, rows |-> <<>>]
TableState(tabs, t) ==
    IF t \in DOMAIN tabs
    THEN [exists |-> TRUE, schema |-> tabs[t].schema, rows |-> tabs[t].rows]
    ELSE Absent

\* cursor.execute("DROP TABLE IF EXISTS `t`")
DropTable_Skipped(tabs, t) == tabs
DropTable(tabs, t) == Remove(tabs, t)

\* cursor.execute(create_sql): CREATE TABLE fails on a table that exists
CreateFails(tabs, t) == t \in DOMAIN tabs
CreateTable(tabs, t, schema) == Put(tabs, t, [schema |-> schema, rows |-> <<>>])

\* clear_row = [None if pd.isna(val) else val for val in row]
None == [k |-> "none", s |-> <<>>, n |-> 0]
InsertData(d) ==
    [r \in DOMAIN d.values |->
        [c \in DOMAIN d.values[r] |->
            IF IsNa(d.values[r][c]) THEN None ELSE d.values[r][c]]]

\* the BIGINT a key value is stored as (rounded half up)
KeyValue(d, row) ==
    LET k == CHOOSE c \in ColumnsNamed(d, PRIMARY_KEY_COLUMN) : TRUE
    IN  (row[k].n + 50) \div 100

\* cursor.executemany(sql, data) fails on a duplicate or out-of-range primary key
InsertFails(d, data) ==
    \/ \E i, j \in DOMAIN data : i < j /\ KeyValue(d, data[i]) = KeyValue(d, data[j])
    \/ \E i \in DOMAIN data, c \in ColumnsNamed(d, PRIMARY_KEY_COLUMN) : data[i][c].k # "num"

\* conn.commit(): the pending rows become the table's rows
CommitRows(tabs, t, rows) ==
    IF t \in DOMAIN tabs /\ rows # <<>>
    THEN [tabs EXCEPT ![t].rows = @ \o rows]
    ELSE tabs

\* what a store call does: succeed, or fail (a server error, a lost connection)
Outcomes == {"ok", "error"}

\* ------------------------------------------------------------ quiescence
\* Each specification drives one part of the program; the other parts rest.
NormIdle == raw = <<>> /\ norm = [sheet |-> <<>>, file |-> <<>>, done |-> {}]
PrePending == [status |-> "pending", reason |-> "", df |-> NoFrame]
PreIdle == df = NoFrame /\ pre = PrePending /\ ddl = <<>>
NoUnit == [unit |-> <<0, 0>>, status |-> "none", df |-> NoFrame, table |-> <<>>]
BatchStart(l) ==
    /\ listing = l /\ files = <<>> /\ run = 1 /\ pc = "idle" /\ fi = 0 /\ si = 0
    /\ base_table_name = <<>> /\ success_count = 0 /\ total_success = 0 /\ tally = <<>>
    /\ cur = NoUnit /\ conn = "none" /\ tables = <<>> /\ pending = <<>>
    /\ exc = FALSE /\ result = FALSE /\ faults = 0
    /\ oplog = <<>> /\ faulted = FALSE /\ attempted = {} /\ discovered = {}
    /\ rejected = {} /\ stored = {} /\ counted = {}
    /\ unitTable = {} /\ lastGood = <<>> /\ lastRun = <<>>
BatchIdle == BatchStart(<<>>)

\* ------------------------------------------------ normalizer specification
NormAlphabet == {"a", "B", "7", "_", " ", ".", "-"}
Texts(n) == UNION {[1..m -> NormAlphabet] : m \in 0..n}

NormInit == raw \in Texts(MaxLen) /\ norm = [sheet |-> <<>>, file |-> <<>>, done |-> {}]
            /\ PreIdle /\ BatchIdle

NormalizeSheet ==
    /\ "sheet" \notin norm.done
    /\ norm' = [norm EXCEPT !.sheet = normalize_sheet_name(raw), !.done = @ \cup {"sheet"}]
    /\ UNCHANGED <<raw, preVars, batchVars>>

NormalizeFile ==
    /\ "file" \notin norm.done
    /\ norm' = [norm EXCEPT !.file = filename_to_base_table_name(raw),
                            !.done = @ \cup {"file"}]
    /\ UNCHANGED <<raw, preVars, batchVars>>

NormNext == NormalizeSheet \/ NormalizeFile
SpecNorm == NormInit /\ [][NormNext]_vars

\* --------------------------------------------- preprocessing specification
Key == PRIMARY_KEY_COLUMN
KeyPadded == <<" ","K","e","y"," ">>
Name == <<"N","a","m","e">>
Revenue == <<"R","e","v","e","n","u","e">>
Amount == <<"A","m","o","u","n","t">>

Headers == { <<Key>>, <<Name>>, <<Key, Name>>, <<Key, Revenue>>, <<Key, Amount>>,
             <<KeyPadded, Name>>, <<Key, KeyPadded>>, <<Key, Name, Revenue>> }

\* the dtype the reader gives a column, and the cells it may hold
ReadDtype(col) == IF col = Amount THEN "float64" ELSE "object"
CellsOf(col) ==
    IF col = Amount THEN {Null, Num(100), Num(150), Huge}
    ELSE IF col = Revenue THEN {Null, Str(<<"$","5">>), Str(<<"1",".","5">>)}
    ELSE IF col = Name THEN {Null, Str(<<>>), Str(<<"a","b">>), Str(<<"2","0","2","4","/","1","/","5">>)}
    ELSE {Null, Str(<<"1">>), Str(<<"x">>)}

\* the rows under a header: one cell per column, from column c on
RECURSIVE RowsFrom(_, _)
RowsFrom(h, c) ==
    IF c > Len(h) THEN {<<>>}
    ELSE {<<x>> \o r : x \in CellsOf(h[c]), r \in RowsFrom(h, c + 1)}

RowsOf(h) == RowsFrom(h, 1)

\* the frames of m rows under a header
FramesOf(h, m) ==
    {Frame(h, [c \in DOMAIN h |-> ReadDtype(h[c])], [r \in 1..m |-> r], v) :
        v \in [1..m -> RowsOf(h)]}

PreInit ==
    /\ \E h \in Headers, m \in 0..MaxRows : df \in FramesOf(h, m)
    /\ pre = PrePending /\ ddl = <<>> /\ NormIdle /\ BatchIdle

Preprocess ==
    /\ pre.status = "pending"
    /\ pre' = preprocess_dataframe(df)
    /\ UNCHANGED <<df, ddl, normVars, batchVars>>

Materialize ==
    /\ pre.status = "usable" /\ ddl = <<>>
    /\ ddl' = ColumnDefs(pre.df)
    /\ UNCHANGED <<df, pre, normVars, batchVars>>

PreNext == Preprocess \/ Materialize
SpecPre == PreInit /\ [][PreNext]_vars

\* ------------------------------------------------------------------ C7
IdentChars(s) == \A i \in DOMAIN s : IsLowerLetter(s[i]) \/ IsDigit(s[i]) \/ s[i] = "_"
\* s matches [a-z][a-z0-9_]*
MatchesIdent(s) == s # <<>> /\ IsLowerLetter(s[1]) /\ IdentChars(s)

\* C7: whatever the input text, each normalizer returns a non-empty identifier that
\* matches [a-z][a-z0-9_]* or is its fallback prefix ("sheet", "table"): no leading
\* digit or underscore, no upper-case letter, nothing outside [a-z0-9_].
C7_NormalizerTotal ==
    /\ "sheet" \in norm.done =>
          /\ norm.sheet # <<>>
          /\ MatchesIdent(norm.sheet) \/ norm.sheet = SheetPrefix
          /\ IdentChars(norm.sheet) /\ ~IsDigit(norm.sheet[1]) /\ norm.sheet[1] # "_"
    /\ "file" \in norm.done =>
          /\ norm.file # <<>>
          /\ MatchesIdent(norm.file) \/ norm.file = TablePrefix
          /\ IdentChars(norm.file) /\ ~IsDigit(norm.file[1]) /\ norm.file[1] # "_"

\* a text that starts with a digit and holds a capital and a blank, normalized both ways
C7_Witness ==
    /\ raw = <<"7", " ", "B">>
    /\ norm.done = {"sheet", "file"}
    /\ norm.sheet = <<"s","h","e","e","t","_","7","_","b">>
    /\ norm.file = <<"t","a","b","l","e","_","7","_","b">>

\* ------------------------------------------------------------------ C8
\* the non-key cells of the input row labelled i, after header cleanup
HasContent(d, i) ==
    \E c \in NoneKeyColumns(CleanHeader(d)) : ~IsNa(CleanHeader(d).values[i][c])

\* C8 as stated: of any dataset with the key column, also one whose only column is the
\* key column, no row whose non-key cells are all null reaches the Usable Dataset.
C8_Original ==
    pre.status = "usable" =>
        \A i \in DOMAIN pre.df.index : HasContent(df, pre.df.index[i])

\* C8 amended: of a dataset with the key column and at least one other column, no row
\* whose non-key cells are all null reaches the Usable Dataset, and the dataset is
\* rejected when no row remains.
C8_EmptyContentDropped ==
    (pre.status = "usable" /\ NoneKeyColumns(CleanHeader(df)) # {}) =>
        /\ Len(pre.df.index) > 0
        /\ \A i \in DOMAIN pre.df.index : HasContent(df, pre.df.index[i])

\* a key-only row with a numeric key is dropped beside a row that has content
C8_Witness ==
    /\ df.columns = <<Key, Name>>
    /\ Len(df.values) = 2
    /\ df.values[1] = <<Str(<<"1">>), Null>>
    /\ df.values[2] = <<Str(<<"1">>), Str(<<"a","b">>)>>
    /\ pre.status = "usable"
    /\ pre.df.index = <<2>>

\* ------------------------------------------------------------------ C9
\* round(L * 1.2)
RoundWidth(L) == (L * 12 + 5) \div 10

\* the longest text among the non-null cells; 0 when there is none
LongestText(cells) ==
    LET lens == {Len(AsStr(cells[r])) : r \in {x \in DOMAIN cells : ~IsNa(cells[x])}}
    IN  IF lens = {} THEN 0 ELSE Max(lens)

\* the widths the claim allows a text column, round() read as rounding to nearest or
\* as the truncation the code applies
ClaimedWidths(cells) ==
    LET L == LongestText(cells)
    IN  IF L = 0 THEN {VarcharDefault}
        ELSE {Min2(RoundWidth(L), VarcharCap), Min2(ScaleWidth(L), VarcharCap)}

\* C9: a string-typed non-key column is VARCHAR(w), w = min(round(L * 1.2), 10000) with
\* L the longest of its non-null values, and w = 255 when all are null or empty; null
\* cells do not contribute to L.
C9_VarcharWidth ==
    ddl # <<>> =>
        \A c \in DOMAIN pre.df.columns :
            (pre.df.dtypes[c] = "object" /\ pre.df.columns[c] # PRIMARY_KEY_COLUMN) =>
                /\ ddl[c].type.t = "VARCHAR"
                /\ ddl[c].type.w \in ClaimedWidths(Series(pre.df, c))

\* ---------------------------------------------------- the data directory
Sheet(name, readable, data) == [name |-> name, readable |-> readable, data |-> data]
File(name, openable, sheets) == [name |-> name, openable |-> openable, sheets |-> sheets]

\* datasets as the readers return them: typed cells from a workbook, text from a CSV
GoodFrame ==
    Frame(<<Key, Name>>, <<"int64", "object">>, <<1, 2>>,
          << <<Num(100), Str(<<"a","b">>)>>, <<Num(200), Str(<<"c">>)>> >>)
OtherFrame ==
    Frame(<<Key, Name>>, <<"object", "object">>, <<1>>,
          << <<Str(<<"7">>), Str(<<"z","z">>)>> >>)
NoKeyFrame ==
    Frame(<<Name>>, <<"object">>, <<1>>, << <<Str(<<"a","b">>)>> >>)
DupKeyFrame ==
    Frame(<<Key, Name>>, <<"int64", "object">>, <<1, 2>>,
          << <<Num(100), Str(<<"a">>)>>, <<Num(100), Str(<<"b">>)>> >>)
HugeFrame ==
    Frame(<<Key, Amount>>, <<"int64", "float64">>, <<1>>, << <<Num(100), Huge>> >>)
\* Key, Name, Revenue: (1, "Acme", "$1,000"), (2, "Beta", empty), (x, "Bad", "$5")
ScenarioFrame ==
    Frame(<<Key, Name, Revenue>>, <<"object", "object", "object">>, <<1, 2, 3>>,
          << <<Str(<<"1">>), Str(<<"A","c","m","e">>), Str(<<"$","1",",","0","0","0">>)>>,
             <<Str(<<"2">>), Str(<<"B","e","t","a">>), Null>>,
             <<Str(<<"x">>), Str(<<"B","a","d">>), Str(<<"$","5">>)>> >>)

DataXlsx == File(<<"d","a","t","a",".","x","l","s","x">>, TRUE,
                 <<Sheet(<<"S","h","e","e","t","1">>, TRUE, GoodFrame)>>)
DataCsv == File(<<"D","a","t","a",".","c","s","v">>, TRUE, <<Sheet(<<>>, TRUE, OtherFrame)>>)
SalesCsv == File(<<"s","a","l","e","s",".","c","s","v">>, TRUE,
                 <<Sheet(<<>>, TRUE, ScenarioFrame)>>)
NoKeyCsv == File(<<"n","o","k","e","y",".","c","s","v">>, TRUE,
                 <<Sheet(<<>>, TRUE, NoKeyFrame)>>)
BookXlsx == File(<<"b","o","o","k",".","x","l","s","x">>, TRUE,
                 <<Sheet(<<"A"," ","B">>, TRUE, GoodFrame),
                   Sheet(<<"a","-","b">>, TRUE, OtherFrame)>>)
BigXlsx == File(<<"2","0","2","4",".","x","l","s","x">>, TRUE,
                <<Sheet(<<"S","1">>, TRUE, HugeFrame), Sheet(<<"S","2">>, TRUE, GoodFrame)>>)
MixXls == File(<<"M","i","x",".","X","L","S","X">>, TRUE,
               <<Sheet(<<"B","r","o","k","e","n">>, FALSE, NoFrame),
                 Sheet(<<"N","o","K","e","y">>, TRUE, NoKeyFrame),
                 Sheet(<<"D","u","p">>, TRUE, DupKeyFrame)>>)
BadXlsx == File(<<"b","a","d",".","x","l","s","x">>, FALSE, <<>>)
TemplateXlsx == File(<<"t","e","m","p","l","a","t","e",".","x","l","s","x">>, TRUE,
                     <<Sheet(<<"S","h","e","e","t","1">>, TRUE, GoodFrame)>>)
LockXlsx == File(<<"~","$","d","a","t","a",".","x","l","s","x">>, FALSE, <<>>)
NotesTxt == File(<<"n","o","t","e","s",".","t","x","t">>, TRUE, <<>>)

\* the files the directory may hold, in the order os.listdir returns them
Directory == <<DataXlsx, DataCsv, SalesCsv, NoKeyCsv, BookXlsx, BigXlsx, MixXls, BadXlsx,
               TemplateXlsx, LockXlsx, NotesTxt>>

\* os.listdir(DATA_DIR): up to MaxFiles of these files
RECURSIVE Listings(_)
Listings(n) ==
    IF n = 0 THEN {<<>>}
    ELSE Listings(n - 1) \cup
         UNION {{<<i>> \o l : l \in {x \in Listings(n - 1) :
                                        Len(x) = n - 1 /\ \A j \in DOMAIN x : x[j] > i}} :
                i \in DOMAIN Directory}

DirListing(l) == [i \in DOMAIN l |-> Directory[l[i]]]

HasExtension(name, exts) == \E e \in exts : EndsWith(Lower(name), e)

\* get_supported_files
get_supported_files(l) ==
    SelectSeq(l, LAMBDA f : /\ ~StartsWith(f.name, <<"~","$">>)
                            /\ HasExtension(f.name, ALL_SUPPORTED_EXTENSIONS)
                            /\ f.name \notin IGNORE_FILES)

\* ------------------------------------------------- batch_sync_all_files
storeVars == <<conn, tables, pending, exc, result, faults, oplog, faulted, stored,
               lastGood, lastRun>>
runHistory == <<attempted, discovered, rejected, counted, unitTable>>

IsExcel(name) == HasExtension(name, {<<".","x","l","s">>, <<".","x","l","s","x">>})
IsCsv(name) == HasExtension(name, {<<".","c","s","v">>})

\* files = get_supported_files(); if not files: return
StartBatch ==
    /\ pc = "idle"
    /\ files' = get_supported_files(listing)
    /\ IF files' = <<>>
       THEN pc' = "done" /\ fi' = 0
       ELSE pc' = "file" /\ fi' = 1
    /\ total_success' = 0 /\ tally' = <<>>
    /\ attempted' = {} /\ discovered' = {} /\ rejected' = {} /\ counted' = {}
    /\ unitTable' = {}
    /\ UNCHANGED <<listing, run, si, base_table_name, success_count, cur, storeVars,
                   normVars, preVars>>

\* sync_single_file_all_sheets, up to the loop over the sheets
OpenFile ==
    /\ pc = "file" /\ fi <= Len(files)
    /\ base_table_name' = filename_to_base_table_name(files[fi].name)
    /\ success_count' = 0
    /\ IF IsExcel(files[fi].name)
       THEN IF ~files[fi].openable \/ files[fi].sheets = <<>>
            THEN pc' = "endfile" /\ si' = 0 /\ UNCHANGED discovered
            ELSE /\ pc' = "sheet" /\ si' = 1
                 /\ discovered' = discovered \cup {<<fi, s>> : s \in DOMAIN files[fi].sheets}
       ELSE IF IsCsv(files[fi].name)
            THEN pc' = "csv" /\ si' = 0 /\ discovered' = discovered \cup {<<fi, 0>>}
            ELSE pc' = "endfile" /\ si' = 0 /\ UNCHANGED discovered
    /\ UNCHANGED <<listing, files, run, fi, total_success, tally, cur, storeVars,
                   attempted, rejected, counted, unitTable, normVars, preVars>>

\* if df is None or df.empty: continue
ShouldSync_Always(p) == p.status # "raised"
ShouldSync(p) == p.status = "usable" /\ ~IsEmpty(p.df)

\* the table of a sheet: the file's name alone when the workbook has one sheet
FinalTableName(base, sheet_names, sheet_name) ==
    IF Len(sheet_names) = 1 THEN base
    ELSE base \o <<"_">> \o normalize_sheet_name(sheet_name)

\* one pass of the loop: read_excel, preprocess_dataframe, the table name
ReadSheet ==
    /\ pc = "sheet" /\ si <= Len(files[fi].sheets)
    /\ LET sheet == files[fi].sheets[si]
           p == preprocess_dataframe(sheet.data)
           name == FinalTableName(base_table_name, files[fi].sheets, sheet.name)
       IN  /\ attempted' = attempted \cup {<<fi, si>>}
           /\ oplog' = <<>> /\ faulted' = FALSE
           /\ IF ~sheet.readable
              THEN /\ cur' = [unit |-> <<fi, si>>, status |-> "unreadable",
                              df |-> NoFrame, table |-> <<>>]
                   /\ pc' = "sheet" /\ si' = si + 1
                   /\ UNCHANGED <<rejected, unitTable>>
              ELSE IF p.status = "raised"
              THEN /\ cur' = [unit |-> <<fi, si>>, status |-> "raised",
                              df |-> NoFrame, table |-> <<>>]
                   /\ pc' = "endfile" /\ si' = si
                   /\ UNCHANGED <<rejected, unitTable>>
              ELSE /\ rejected' = IF p.status = "rejected" THEN rejected \cup {<<fi, si>>}
                                  ELSE rejected
                   /\ IF ShouldSync(p)
                      THEN /\ cur' = [unit |-> <<fi, si>>, status |-> p.status,
                                      df |-> p.df, table |-> name]
                           /\ unitTable' = unitTable \cup {<<fi, si, name>>}
                           /\ pc' = "connect" /\ si' = si
                      ELSE /\ cur' = [unit |-> <<fi, si>>, status |-> p.status,
                                      df |-> NoFrame, table |-> <<>>]
                           /\ pc' = "sheet" /\ si' = si + 1
                           /\ UNCHANGED unitTable
    /\ UNCHANGED <<listing, files, run, fi, base_table_name, success_count, total_success,
                   tally, conn, tables, pending, exc, result, faults, stored, lastGood,
                   lastRun, discovered, counted, normVars, preVars>>

\* the loop is over
SheetsDone ==
    /\ pc = "sheet" /\ si > Len(files[fi].sheets)
    /\ pc' = "endfile"
    /\ UNCHANGED <<listing, files, run, fi, si, base_table_name, success_count,
                   total_success, tally, cur, storeVars, runHistory, normVars, preVars>>

\* the CSV branch: read_and_preprocess_csv, then the test `df is not None and not df.empty`
ReadCsv ==
    /\ pc = "csv"
    /\ LET sheet == files[fi].sheets[1]
           p == preprocess_dataframe(sheet.data)
       IN  /\ attempted' = attempted \cup {<<fi, 0>>}
           /\ oplog' = <<>> /\ faulted' = FALSE
           /\ IF ~sheet.readable \/ p.status = "raised"
              THEN /\ cur' = [unit |-> <<fi, 0>>, status |-> "raised",
                              df |-> NoFrame, table |-> <<>>]
                   /\ pc' = "endfile"
                   /\ UNCHANGED <<rejected, unitTable>>
              ELSE /\ rejected' = IF p.status = "rejected" THEN rejected \cup {<<fi, 0>>}
                                  ELSE rejected
                   /\ IF ShouldSync(p)
                      THEN /\ cur' = [unit |-> <<fi, 0>>, status |-> p.status,
                                      df |-> p.df, table |-> base_table_name]
                           /\ unitTable' = unitTable \cup {<<fi, 0, base_table_name>>}
                           /\ pc' = "connect"
                      ELSE /\ cur' = [unit |-> <<fi, 0>>, status |-> p.status,
                                      df |-> NoFrame, table |-> <<>>]
                           /\ pc' = "endfile"
                           /\ UNCHANGED unitTable
    /\ UNCHANGED <<listing, files, run, fi, si, base_table_name, success_count,
                   total_success, tally, conn, tables, pending, exc, result, faults, stored,
                   lastGood, lastRun, discovered, counted, normVars, preVars>>

\* ---------------------------------------------- sync_dataframe_to_table
orchestratorVars == <<listing, files, run, fi, si, base_table_name, success_count,
                      total_success, tally, cur>>

\* conn = connect_mysql(); if not conn or df is None or df.empty: return False
Connect ==
    /\ pc = "connect"
    /\ \E ok \in BOOLEAN :
        /\ ~ok => faults < MaxFaults
        /\ faults' = IF ok THEN faults ELSE faults + 1
        /\ oplog' = Append(oplog, "connect")
        /\ stored' = stored \cup {cur.unit}
        /\ result' = FALSE /\ exc' = FALSE
        /\ IF ~ok THEN conn' = "none" /\ faulted' = TRUE /\ pc' = "return"
           ELSE IF IsEmpty(cur.df) THEN conn' = "open" /\ UNCHANGED faulted /\ pc' = "return"
           ELSE conn' = "open" /\ UNCHANGED faulted /\ pc' = "create"
    /\ UNCHANGED <<orchestratorVars, tables, pending, lastGood, lastRun, runHistory,
                   normVars, preVars>>

\* create_table_with_key_as_pk: DROP TABLE IF EXISTS, CREATE TABLE, conn.commit();
\* any of the three may fail
CreateTableWithKeyAsPk ==
    /\ pc = "create"
    /\ \E at \in {"none", "drop", "create", "commit"} :
        LET t == cur.table
            dropped == DropTable(tables, t)
            created == CreateTable(dropped, t, ColumnDefs(cur.df))
            exists == at \notin {"drop", "create"} /\ CreateFails(dropped, t)
        IN  /\ at # "none" => faults < MaxFaults
            /\ faults' = IF at # "none" THEN faults + 1 ELSE faults
            /\ tables' = CASE at = "drop" -> tables
                           [] at = "create" \/ exists -> dropped
                           [] OTHER -> created
            /\ oplog' = oplog \o
                           (CASE at = "drop" -> <<"drop">>
                              [] at = "create" \/ exists -> <<"drop", "create">>
                              [] OTHER -> <<"drop", "create", "commit">>)
            /\ pc' = IF at = "none" /\ ~exists THEN "insert" ELSE "rollback"
            /\ faulted' = (faulted \/ at # "none")
    /\ UNCHANGED <<orchestratorVars, conn, pending, exc, result, stored, lastGood, lastRun,
                   runHistory, normVars, preVars>>

\* with conn.cursor() as cursor: cursor.executemany(sql, data)
ExecuteMany ==
    /\ pc = "insert"
    /\ \E o \in Outcomes :
        LET data == InsertData(cur.df)
        IN  /\ o # "ok" => faults < MaxFaults
            /\ faults' = IF o # "ok" THEN faults + 1 ELSE faults
            /\ oplog' = Append(oplog, "executemany")
            /\ IF o = "ok" /\ ~InsertFails(cur.df, data)
               THEN pending' = data /\ pc' = "commit"
               ELSE pending' = <<>> /\ pc' = "rollback"
            /\ faulted' = (faulted \/ o # "ok")
    /\ UNCHANGED <<orchestratorVars, conn, tables, exc, result, stored, lastGood, lastRun,
                   runHistory, normVars, preVars>>

\* conn.commit(); return True
Commit ==
    /\ pc = "commit"
    /\ \E o \in Outcomes :
        /\ o # "ok" => faults < MaxFaults
        /\ faults' = IF o # "ok" THEN faults + 1 ELSE faults
        /\ oplog' = Append(oplog, "commit")
        /\ IF o = "ok"
           THEN /\ tables' = CommitRows(tables, cur.table, pending)
                /\ pending' = <<>> /\ result' = TRUE /\ pc' = "close"
                /\ lastGood' = Put(lastGood, cur.table, TableState(tables', cur.table))
                /\ UNCHANGED faulted
           ELSE /\ pc' = "rollback" /\ faulted' = TRUE
                /\ UNCHANGED <<tables, pending, result, lastGood>>
    /\ UNCHANGED <<orchestratorVars, conn, exc, stored, lastRun, runHistory,
                   normVars, preVars>>

\* except Exception: conn.rollback(); return False -- after a store fault the connection
\* may be gone, and then rollback raises
Rollback ==
    /\ pc = "rollback"
    /\ \E gone \in BOOLEAN :
        /\ gone => faulted
        /\ conn' = IF gone THEN "lost" ELSE conn
        /\ exc' = gone
    /\ oplog' = Append(oplog, "rollback")
    /\ pending' = <<>>
    /\ result' = FALSE
    /\ pc' = "close"
    /\ UNCHANGED <<orchestratorVars, tables, faults, faulted, stored, lastGood, lastRun,
                   runHistory, normVars, preVars>>

\* finally: conn.close() -- close raises on a connection that is already gone
Close ==
    /\ pc = "close"
    /\ oplog' = Append(oplog, "close")
    /\ exc' = (exc \/ conn = "lost")
    /\ conn' = "closed"
    /\ pending' = <<>>
    /\ pc' = "return"
    /\ UNCHANGED <<orchestratorVars, tables, result, faults, faulted, stored, lastGood,
                   lastRun, runHistory, normVars, preVars>>

\* the record of the latest syncs of a table that met no store fault
NoRun == [file |-> <<>>, sheet |-> 0, n |-> 0, ok |-> FALSE, tab |-> Absent,
          prevOk |-> FALSE, prevTab |-> Absent]
NextRun(prev, file, sheet, ok, tab) ==
    [file |-> file, sheet |-> sheet,
     n |-> IF prev.n > 0 /\ prev.file = file /\ prev.sheet = sheet THEN prev.n + 1 ELSE 1,
     ok |-> ok, tab |-> tab, prevOk |-> prev.ok, prevTab |-> prev.tab]

\* back in sync_single_file_all_sheets: `if sync_dataframe_to_table(...): success_count += 1`,
\* or the outer `except Exception`, which ends the file
Return ==
    /\ pc = "return"
    /\ lastRun' =
        IF faulted THEN Remove(lastRun, cur.table)
        ELSE Put(lastRun, cur.table,
                 NextRun(IF cur.table \in DOMAIN lastRun THEN lastRun[cur.table] ELSE NoRun,
                         files[fi].name, cur.unit[2], result,
                         TableState(tables, cur.table)))
    /\ IF exc
       THEN pc' = "endfile" /\ UNCHANGED <<si, success_count, counted>>
       ELSE /\ success_count' = IF result THEN success_count + 1 ELSE success_count
            /\ counted' = IF result THEN counted \cup {cur.unit} ELSE counted
            /\ IF cur.unit[2] = 0
               THEN pc' = "endfile" /\ UNCHANGED si
               ELSE pc' = "sheet" /\ si' = si + 1
    /\ exc' = FALSE
    /\ UNCHANGED <<listing, files, run, fi, base_table_name, total_success, tally, cur,
                   conn, tables, pending, result, faults, oplog, faulted, stored, lastGood,
                   attempted, discovered, rejected, unitTable, normVars, preVars>>

\* return success_count; total_success += success_count
EndFile ==
    /\ pc = "endfile"
    /\ total_success' = total_success + success_count
    /\ fi' = fi + 1
    /\ pc' = "file"
    /\ UNCHANGED <<listing, files, run, si, base_table_name, success_count, tally, cur,
                   storeVars, runHistory, normVars, preVars>>

\* the closing log line: files processed, sheets synced
FinishBatch ==
    /\ pc = "file" /\ fi > Len(files)
    /\ tally' = <<Len(files), total_success>>
    /\ pc' = "done"
    /\ UNCHANGED <<listing, files, run, fi, si, base_table_name, success_count,
                   total_success, cur, storeVars, runHistory, normVars, preVars>>

\* main.py: the job runs again over the same directory
RunAgain ==
    /\ pc = "done" /\ run < MaxRuns
    /\ run' = run + 1
    /\ pc' = "idle"
    /\ UNCHANGED <<listing, files, fi, si, base_table_name, success_count, total_success,
                   tally, cur, storeVars, runHistory, normVars, preVars>>

Init ==
    /\ \E l \in Listings(MaxFiles) : BatchStart(DirListing(l))
    /\ NormIdle /\ PreIdle

Next ==
    \/ StartBatch \/ OpenFile \/ ReadSheet \/ SheetsDone \/ ReadCsv
    \/ Connect \/ CreateTableWithKeyAsPk \/ ExecuteMany \/ Commit \/ Rollback \/ Close
    \/ Return \/ EndFile \/ FinishBatch \/ RunAgain

Spec == Init /\ [][Next]_vars

\* ------------------------------------------------------------------ C1
\* C1: when a unit's sync has failed, its table is absent or is exactly what the last
\* successful sync of that table left; never dropped and recreated but empty.
C1_FailedSyncLeavesTableIntact ==
    (pc = "return" /\ ~result /\ cur.status = "usable") =>
        \/ TableState(tables, cur.table) = Absent
        \/ /\ cur.table \in DOMAIN lastGood
           /\ TableState(tables, cur.table) = lastGood[cur.table]

\* ------------------------------------------------------------------ C2
\* C2: a unit that preprocessing rejected is not counted as succeeded and no storage
\* operation (connect, drop, create, insert, commit) is performed for it, for a sheet
\* and for a CSV file alike.
C2_RejectedNeverTouchesStorage ==
    /\ \A u \in rejected : u \notin stored /\ u \notin counted
    /\ cur.unit \in rejected => pc \notin {"connect", "create", "insert", "commit",
                                           "rollback", "close", "return"}

\* a sheet and a CSV file without the key column have both been rejected, and the run is over
C2_Witness ==
    /\ pc = "done"
    /\ \E f \in DOMAIN files :
          /\ IsExcel(files[f].name)
          /\ \E s \in DOMAIN files[f].sheets :
                /\ <<f, s>> \in rejected
                /\ ~HasKeyColumn(CleanHeader(files[f].sheets[s].data))
    /\ \E f \in DOMAIN files :
          /\ IsCsv(files[f].name) /\ <<f, 0>> \in rejected
          /\ ~HasKeyColumn(CleanHeader(files[f].sheets[1].data))

\* ------------------------------------------------------------------ C3
\* C3: whatever fails on one unit, every other discovered unit (the later sheets of the
\* same workbook, the later files) is still attempted, and the run ends with the tally.
C3_EveryUnitAttempted ==
    pc = "done" /\ files # <<>> =>
        /\ discovered \subseteq attempted
        /\ tally = <<Len(files), total_success>>

\* ------------------------------------------------------------------ C4
\* C4: two syncs in succession of the same unchanged dataset, neither meeting a store
\* fault, end alike: the same outcome, and a table of the same schema and the same rows.
C4_Idempotent ==
    \A t \in DOMAIN lastRun :
        lastRun[t].n >= 2 =>
            /\ lastRun[t].ok = lastRun[t].prevOk
            /\ lastRun[t].tab = lastRun[t].prevTab

\* a dataset has been loaded twice in succession and its table holds rows
C4_Witness ==
    \E t \in DOMAIN lastRun :
        /\ lastRun[t].n >= 2 /\ lastRun[t].ok /\ lastRun[t].prevOk
        /\ lastRun[t].tab.exists /\ Len(lastRun[t].tab.rows) = 2
        /\ run = 2 /\ pc = "done"

\* ------------------------------------------------------------------ C5
Count(s, x) == Cardinality({i \in DOMAIN s : s[i] = x})

\* C5: a unit's materialize+load is one transaction on a connection opened for it:
\* committed exactly once on full success, rolled back on failure, and the connection
\* closed before the next unit starts.
C5_OneTransactionPerUnit ==
    /\ Count(oplog, "connect") <= 1
    /\ (pc = "return" /\ result) =>
          /\ Count(oplog, "commit") = 1 /\ Count(oplog, "rollback") = 0
          /\ conn = "closed"
    /\ (pc = "return" /\ ~result /\ Count(oplog, "drop") > 0) =>
          /\ Count(oplog, "rollback") = 1
          /\ conn = "closed"
    /\ pc \in {"sheet", "csv", "file", "endfile", "connect", "done", "idle"} => conn # "open"

\* ------------------------------------------------------------------ C6
Sales == <<"s","a","l","e","s">>
IsScenario == cur.unit[1] \in DOMAIN files /\ files[cur.unit[1]] = SalesCsv

ScenarioRows(revenue1) ==
    << <<Num(100), Str(<<"A","c","m","e">>), revenue1>>,
       <<Num(200), Str(<<"B","e","t","a">>), None>> >>

ScenarioSchema(revenueType) ==
    << [name |-> Key, type |-> SqlType("BIGINT", 0), pk |-> TRUE],
       [name |-> Name, type |-> SqlType("VARCHAR", 4), pk |-> FALSE],
       [name |-> Revenue, type |-> revenueType, pk |-> FALSE] >>

\* C6 as stated: the scenario's third row is dropped, Revenue holds [1000.00, null] and
\* is DECIMAL(9,4), Key is BIGINT PRIMARY KEY, Name is VARCHAR(n), 2 rows are loaded.
C6_Original ==
    (IsScenario /\ pc = "return" /\ result) =>
        /\ cur.df.index = <<1, 2>>
        /\ tables[Sales].schema = ScenarioSchema(SqlType("DECIMAL(9, 4)", 0))
        /\ tables[Sales].rows = ScenarioRows(Num(100000))

\* C6 amended: as stated, but the Revenue column, whose values [1000, null] are whole,
\* is narrowed to integers and typed BIGINT.
C6_Scenario ==
    /\ (IsScenario /\ pc = "connect") =>
          /\ cur.status = "usable" /\ cur.df.index = <<1, 2>>
          /\ cur.df.dtypes[3] = "Int64"
          /\ Series(cur.df, 3) = <<Num(100000), Null>>
    /\ (IsScenario /\ pc = "return" /\ result) =>
          /\ tables[Sales].schema = ScenarioSchema(SqlType("BIGINT", 0))
          /\ tables[Sales].rows = ScenarioRows(Num(100000))
          /\ Len(tables[Sales].rows) = 2

\* the scenario's file has been loaded
C6_Witness ==
    /\ IsScenario /\ pc = "return" /\ result /\ cur.table = Sales
    /\ Len(files[cur.unit[1]].sheets[1].data.values) = 3
    /\ Len(tables[Sales].rows) = 2

\* ----------------------------------------------------------------- C10
\* C10: within one run no two distinct units are given the same table name, so a table
\* loaded for one unit is not dropped and rebuilt by a later unit of the run.
C10_DistinctTables ==
    \A p, q \in unitTable : p[3] = q[3] => (p[1] = q[1] /\ p[2] = q[2])

=============================================================================
